---- MODULE Spec2Model ----
(***************************************************************************)
(* DocSync desktop control surface (electron-app): the Config Store        *)
(* (get-config / save-config), the Process Supervisor (run-sync,           *)
(* health-check, run-clean), the Event Bridge (IPC channels) and the       *)
(* renderer's sync state machine.                                          *)
(*                                                                         *)
(* Main process: src/electron-app/electron_main.js lines 1-227.            *)
(* Renderer:     src/electron-app/gui/renderer.js.                         *)
(***************************************************************************)
EXTENDS Integers, Sequences, FiniteSets, TLC

(***************************************************************************)
(* Bounds of the model.                                                    *)
(***************************************************************************)
\* longest task list of a stored document or of a partial
MaxTasks == 1
\* longest task list of a file in the legacy bare-list form
MaxLegacy == 2
\* run-sync commands the supervisor handles
MaxSyncs == 2
\* health-check calls the supervisor handles
MaxProbes == 1
\* data events (stdout and stderr together) of the workers not yet closed
MaxChunks == 2
\* windows the application creates
MaxWindows == 2
\* run-clean commands the supervisor handles
MaxCleans == 2
\* tasks the list holds once one is added
MaxCards == 1
\* save-config invokes in flight
MaxPending == 2
\* lines the log view shows without scrolling (clientHeight)
ClientLines == 2

(***************************************************************************)
(* JSON values of the configuration document.                              *)
(***************************************************************************)
\* the keys save-config merges (electron_main.js 136-144)
HandledKeys == {"feishu_app_id", "feishu_app_secret", "tasks"}

\* a key the document may hold that save-config does not know
\* (get-config's default lists it, electron_main.js 98)
UnknownKey == "feishu_user_access_token"

DocKeys == HandledKeys \cup {UnknownKey}

Tasks ==
  { [note |-> "A", local |-> "/a", cloud |-> "t1"],
    [note |-> "B", local |-> "/b", cloud |-> "t2"] }

RECURSIVE SeqsUpTo(_, _)
SeqsUpTo(S, n) ==
  IF n = 0 THEN { << >> }
  ELSE LET shorter == SeqsUpTo(S, n - 1)
       IN  shorter \cup { Append(s, x) : s \in { t \in shorter : Len(t) = n - 1 }, x \in S }

TaskLists == SeqsUpTo(Tasks, MaxTasks)

LegacyLists == SeqsUpTo(Tasks, MaxLegacy)

EmptyObj == [k \in {} |-> ""]

\* every object over a subset of DocKeys, its values drawn from the given sets
Objects(ids, secrets, lists, tokens) ==
  UNION { { [k \in D |->
               CASE k = "feishu_app_id"     -> f[1]
                 [] k = "feishu_app_secret" -> f[2]
                 [] k = "tasks"             -> f[3]
                 [] OTHER                   -> f[4] ] :
            f \in ids \X secrets \X lists \X tokens } :
          D \in SUBSET DocKeys }

\* the documents found on disk at start
StoredObjects == Objects({"cli_x"}, {"old_secret"}, TaskLists, {"u-tok"})

\* the argument of a save-config call
Partials == Objects({"new_id"}, {"new_secret"}, TaskLists, {"u-tok2"})

(***************************************************************************)
(* The file at getConfigPath(): absent, or text that JSON.parse rejects,   *)
(* or JSON text, held as the value JSON.parse gives for it.                *)
(***************************************************************************)
File(kind, obj, arr) == [kind |-> kind, obj |-> obj, arr |-> arr]

InitialFiles ==
  { File(k, EmptyObj, << >>) : k \in {"missing", "malformed", "null", "scalar"} }
  \cup { File("array", EmptyObj, a) : a \in LegacyLists }
  \cup { File("record", o, << >>) : o \in StoredObjects }

VARIABLES
  disk,        \* the configuration file
  lastSave,    \* the last save-config call: its argument, the file before it, its outcome
  lastLoad,    \* the last get-config call: the file it found, what it returned
  uiTasks,     \* config.tasks of the renderer: task objects, each with its identity
  cards,       \* the task cards of #tasks-list: the task object and the inputs of each
  confirm,     \* the card whose delete confirmation is open, 0 when none
  platform,    \* process.platform
  isPackaged,  \* app.isPackaged
  currentLang, \* the language setting, kept in localStorage
  appQuit,     \* app.quit() was called
  uncaught,    \* an exception reached the main process's top level
  wins,        \* windows created so far
  win,         \* the open window (its number), 0 when none
  syncing,     \* startSyncBtn has class 'syncing'
  appStatus,   \* appStatus.textContent
  lastSyncTime,\* number of times lastSyncTime.textContent was set
  logOutput,   \* children of #log-output
  scrollTop,   \* logOutput.scrollTop, in lines
  checking,    \* run-health-check-btn is disabled
  healthResult,\* what health-check-result shows
  cleanBtn,    \* clean-backups-btn: disabled, its text, its pending text timers
  toMain,      \* IPC messages renderer -> main, in flight
  toUI,        \* IPC messages main -> renderer of the open window, in flight
  children,    \* every child process spawned, in spawn order
  probes       \* every health-check promise, in call order

cfgVars == << disk, lastSave, lastLoad >>
taskVars == << uiTasks, cards, confirm >>
envVars == << platform, isPackaged, currentLang >>
uiVars  == << syncing, appStatus, lastSyncTime, logOutput, scrollTop, checking,
             healthResult, cleanBtn >>
supVars == << appQuit, uncaught, wins, win, toMain, toUI, children, probes >>
vars == << disk, lastSave, lastLoad, uiTasks, cards, confirm, platform, isPackaged,
           currentLang,
           appQuit, uncaught, wins, win, syncing, appStatus, lastSyncTime, logOutput,
           scrollTop, checking, healthResult, cleanBtn, toMain, toUI, children, probes >>

NoSave == [done |-> FALSE, data |-> EmptyObj, before |-> File("missing", EmptyObj, << >>),
           result |-> "none"]

(***************************************************************************)
(* get-config, electron_main.js 92-119                                     *)
(***************************************************************************)
\* lines 95-102
DefaultConfig ==
  [k \in {"feishu_app_id", "feishu_app_secret", "feishu_user_access_token",
          "feishu_user_refresh_token", "feishu_assets_token", "tasks"} |->
     IF k = "tasks" THEN << >> ELSE ""]

\* line 108: { ...config, ...data }
Spread(config, data) ==
  [k \in DOMAIN config \cup DOMAIN data |->
     IF k \in DOMAIN data THEN data[k] ELSE config[k]]

\* the array replaces the whole default
ReadConfig_ListOnly(d) ==
  CASE d.kind = "record" -> Spread(DefaultConfig, d.obj)
    [] d.kind = "array"  -> [tasks |-> d.arr]
    [] OTHER             -> DefaultConfig

\* a file that does not parse is passed on as an empty record
ReadConfig_Bare(d) ==
  CASE d.kind = "record"    -> Spread(DefaultConfig, d.obj)
    [] d.kind = "array"     -> [DefaultConfig EXCEPT !["tasks"] = d.arr]
    [] d.kind = "malformed" -> EmptyObj
    [] OTHER                -> DefaultConfig

\* lines 104-116: a record is spread over the default (null spreads to
\* nothing), an array becomes its tasks, anything else and every throw of
\* existsSync / readFileSync / JSON.parse leaves the default
ReadConfig(d) ==
  CASE d.kind = "record" -> Spread(DefaultConfig, d.obj)
    [] d.kind = "array"  -> [DefaultConfig EXCEPT !["tasks"] = d.arr]
    [] OTHER             -> DefaultConfig

NoLoad == [done |-> FALSE, file |-> File("missing", EmptyObj, << >>),
           config |-> EmptyObj, raised |-> FALSE, logged |-> FALSE]

\* the handler returns config on every path; the catch logs the error
GetConfig ==
  /\ lastLoad' = [done |-> TRUE, file |-> disk, config |-> ReadConfig(disk),
                  raised |-> FALSE, logged |-> disk.kind = "malformed"]
  /\ UNCHANGED << disk, lastSave, taskVars, envVars, uiVars, supVars >>

(***************************************************************************)
(* save-config, electron_main.js 121-150                                   *)
(***************************************************************************)
\* lines 125-133: config = {} unless the file parses to a non-array `object`;
\* typeof null is 'object', so a file holding null makes config null
LoadExisting(d) ==
  CASE d.kind = "record" -> [isNull |-> FALSE, obj |-> d.obj]
    [] d.kind = "null"   -> [isNull |-> TRUE,  obj |-> EmptyObj]
    [] OTHER             -> [isNull |-> FALSE, obj |-> EmptyObj]

\* read-replace-write: the stored keys are dropped
MergeData_Replace(obj, data) ==
  [k \in DOMAIN data \cap HandledKeys |-> data[k]]

\* lines 136-144: the three guarded assignments
MergeData(obj, data) ==
  [k \in DOMAIN obj \cup (DOMAIN data \cap HandledKeys) |->
     IF k \in DOMAIN data \cap HandledKeys THEN data[k] ELSE obj[k]]

\* an assignment to a property of null throws a TypeError
MergeThrows(config, data) == config.isNull /\ DOMAIN data \cap HandledKeys # {}

\* a document holding nothing but tasks is written as the list itself
Stringify_TasksAsList(config, data) ==
  IF config.isNull THEN File("null", EmptyObj, << >>)
  ELSE IF DOMAIN MergeData(config.obj, data) = {"tasks"}
    THEN File("array", EmptyObj, MergeData(config.obj, data)["tasks"])
    ELSE File("record", MergeData(config.obj, data), << >>)

\* line 147: JSON.stringify(config, null, 2) written to the file
Stringify(config, data) ==
  IF config.isNull THEN File("null", EmptyObj, << >>)
  ELSE File("record", MergeData(config.obj, data), << >>)

\* the file is read before the call before this one has written
WriteConfig_StaleRead(data) ==
  LET config == LoadExisting(IF lastSave.done THEN lastSave.before ELSE disk) IN
  /\ IF MergeThrows(config, data)
       THEN /\ disk' = disk
            /\ lastSave' = [done |-> TRUE, data |-> data, before |-> disk,
                            result |-> "rejected"]
       ELSE /\ disk' = Stringify(config, data)
            /\ lastSave' = [done |-> TRUE, data |-> data, before |-> disk,
                            result |-> "ok"]

\* the handler's body: read, merge, write
WriteConfig(data) ==
  LET config == LoadExisting(disk) IN
  /\ IF MergeThrows(config, data)
       THEN /\ disk' = disk
            /\ lastSave' = [done |-> TRUE, data |-> data, before |-> disk,
                            result |-> "rejected"]
       ELSE /\ disk' = Stringify(config, data)
            /\ lastSave' = [done |-> TRUE, data |-> data, before |-> disk,
                            result |-> "ok"]

SaveConfig(data) ==
  /\ WriteConfig(data)
  /\ UNCHANGED << lastLoad, taskVars, envVars, uiVars, supVars >>

(***************************************************************************)
(* Texts are sequences of tokens: a token is one white-space character or  *)
(* a run of other characters.                                              *)
(***************************************************************************)
WhiteSpace == {" ", "\n"}

RECURSIVE TrimLeft(_)
TrimLeft(t) ==
  IF Len(t) > 0 /\ Head(t) \in WhiteSpace THEN TrimLeft(Tail(t)) ELSE t

RECURSIVE TrimRight(_)
TrimRight(t) ==
  IF Len(t) > 0 /\ t[Len(t)] \in WhiteSpace
    THEN TrimRight(SubSeq(t, 1, Len(t) - 1)) ELSE t

\* String.prototype.trim, renderer.js 345
Trim(t) == TrimRight(TrimLeft(t))

RECURSIVE Join(_)
\* Array.prototype.join(' '), electron_main.js 167
Join(a) ==
  IF Len(a) = 0 THEN << >>
  ELSE IF Len(a) = 1 THEN << a[1] >>
  ELSE << a[1], " " >> \o Join(Tail(a))

\* what the worker writes: the k-th data event of a stream
ChunkText(stream, k) ==
  IF stream = "stdout"
    THEN (IF k = 1 THEN << "done" >> ELSE << " ", "synced", "\n" >>)
    ELSE << "warning", "\n" >>

\* exit code 0, a non-zero exit code, no exit code (ended by a signal)
CodeZero == << 0 >>
CodeNull == << >>
ExitCodes == { << 0 >>, << 1 >>, << >> }

CodeText(code) ==
  IF code = CodeNull THEN "null" ELSE IF code = CodeZero THEN "0" ELSE "1"

(***************************************************************************)
(* Helpers, electron_main.js 56-71                                         *)
(***************************************************************************)
Platforms == {"darwin", "win32", "linux"}

GetPythonPath ==
  IF ~isPackaged
    THEN [command |-> "python3", args |-> << "main.py" >>]
    ELSE [command |-> IF platform = "win32"
                        THEN "resources/python/doc-sync-core.exe"
                        ELSE "resources/python/doc-sync-core",
          args |-> << >>]

\* __dirname of the main script, process.resourcesPath
Dirname == "project/electron-app"
ResourcesPath == "resources"

\* path.join(dir, '..')
Parent(dir) == IF dir = "project/electron-app" THEN "project" ELSE "/"

\* getConfigPath, lines 67-71: the directory and the base name of the path
GetConfigPath ==
  IF isPackaged
    THEN [dir |-> ResourcesPath, base |-> "sync_config.json"]
    ELSE [dir |-> Parent(Dirname), base |-> "sync_config.json"]

\* the workers of a development build run in the script's own directory
Cwd_ScriptDir == IF isPackaged THEN ResourcesPath ELSE Dirname

\* electron_main.js 160, 188, 214
Cwd == IF isPackaged THEN ResourcesPath ELSE Parent(Dirname)

(***************************************************************************)
(* IPC messages and child processes                                        *)
(***************************************************************************)
\* a message main -> renderer; c, stream, n name the child, the stream and
\* the data event it comes from
Msg(ch, text, ok, c, stream, n) ==
  [ch |-> ch, text |-> text, ok |-> ok, c |-> c, stream |-> stream, n |-> n]

\* a message renderer -> main
Cmd(ch, force, from) == [ch |-> ch, force |-> force, from |-> from]

\* event.reply / the answer of an invoke: it reaches the sender's renderer,
\* which is gone once its window is closed
Send(q, owner, m) == IF owner = win THEN Append(q, m) ELSE q

Child(mode, owner, command, args, found) ==
  [mode |-> mode, owner |-> owner, command |-> command, args |-> args, cwd |-> Cwd,
   st |-> IF found THEN "running" ELSE "spawnfail",
   code |-> CodeNull, nOut |-> 0, nErr |-> 0]

\* after 'close' nothing refers to the child object any more
Closed(ch) ==
  [mode |-> ch.mode, owner |-> 0, command |-> "", args |-> << >>, cwd |-> "",
   st |-> "closed", code |-> CodeNull, nOut |-> 0, nErr |-> 0]

ChildIds == 1 .. Len(children)
ProbeIds == 1 .. Len(probes)

Live(c) == children[c].st \in {"running", "exited"}
SyncSent ==
  Cardinality({ c \in ChildIds : children[c].mode = "sync" })
  + Cardinality({ i \in 1 .. Len(toMain) : toMain[i].ch = "run-sync" })
RECURSIVE DataEvents(_)
DataEvents(c) ==
  IF c = 0 THEN 0 ELSE children[c].nOut + children[c].nErr + DataEvents(c - 1)
CleanSent ==
  Cardinality({ c \in ChildIds : children[c].mode = "clean" })
  + Cardinality({ i \in 1 .. Len(toMain) : toMain[i].ch = "run-clean" })
ProbeSent ==
  Len(probes) + Cardinality({ i \in 1 .. Len(toMain) : toMain[i].ch = "health-check" })

(***************************************************************************)
(* Renderer: translations, renderer.js 23-166                              *)
(***************************************************************************)
\* the tables of i18n, both with the same keys (the entries the model uses)
I18n ==
  [en |-> [ready |-> "Ready to sync...", saved |-> "Saved!",
           taskNamePlaceholder |-> "Task Name"],
   zh |-> [ready |-> "zh: Ready to sync...", saved |-> "zh: Saved!",
           taskNamePlaceholder |-> "zh: Task Name"]]

\* table?.[key]: the entry in a one-element sequence, undefined as << >>
Entry18(lang, key) ==
  IF lang \in DOMAIN I18n /\ key \in DOMAIN I18n[lang] THEN << I18n[lang][key] >> ELSE << >>

\* a key the current language lacks is not looked up in English
T_NoFallback(key) ==
  IF Entry18(currentLang, key) # << >> THEN Entry18(currentLang, key)[1] ELSE key

\* t(key), lines 164-166: a ?? b is b exactly when a is undefined or null
T(key) ==
  IF Entry18(currentLang, key) # << >> THEN Entry18(currentLang, key)[1]
  ELSE IF Entry18("en", key) # << >> THEN Entry18("en", key)[1]
  ELSE key

\* saveUI, lines 231-249: the language select holds one of its options
SaveUI(lang) ==
  /\ ~appQuit /\ win # 0 /\ confirm = 0
  /\ lang \in DOMAIN I18n /\ lang # currentLang
  /\ currentLang' = lang
  /\ UNCHANGED << cfgVars, taskVars, platform, isPackaged, uiVars, supVars >>

(***************************************************************************)
(* Renderer: log view, renderer.js 306-323                                 *)
(***************************************************************************)
Entry(text, c, stream, n) == [text |-> text, c |-> c, stream |-> stream, n |-> n]
Placeholder == Entry(<< "Ready to sync..." >>, 0, "placeholder", 0)
IsLine(e) == e.stream # "placeholder"

\* the view's geometry, one line per child: scrollHeight, the largest
\* scrollTop, and the test of renderer.js 310
ScrollHeight(view) == IF Len(view) > ClientLines THEN Len(view) ELSE ClientLines
MaxScroll(view) == ScrollHeight(view) - ClientLines
AtBottom(view, top) == ScrollHeight(view) - top = ClientLines

\* an assignment to scrollTop is clamped to the scrollable range
SetScroll(view, top) == IF top > MaxScroll(view) THEN MaxScroll(view) ELSE top

\* every log call scrolls to the bottom
ScrollAfterLog_Always(view, top) ==
  LET shown == SelectSeq(view, IsLine) IN MaxScroll(Append(shown, Placeholder))

\* scrollTop after log(msg), renderer.js 307-318: the test is made once the
\* placeholder is removed, the assignment once the line is appended
ScrollAfterLog(view, top) ==
  LET shown == SelectSeq(view, IsLine)
      grown == Append(shown, Placeholder)
  IN  IF AtBottom(shown, SetScroll(shown, top))
        THEN SetScroll(grown, ScrollHeight(grown))
        ELSE SetScroll(shown, top)

\* the line replaces the lines before it
Log_Overwrite(view, e) == << e >>

\* the line is put first
Log_Prepend(view, e) == << e >> \o SelectSeq(view, IsLine)

\* log(msg): the placeholder is removed, one line is appended
Log(view, e) == Append(SelectSeq(view, IsLine), e)

CleanIdle == [disabled |-> FALSE, text |-> "cleanBackups", timers |-> 0]

RendererLoaded ==
  /\ syncing = FALSE
  /\ appStatus = "ready"
  /\ lastSyncTime = 0
  /\ logOutput = << Placeholder >>
  /\ scrollTop = 0
  /\ checking = FALSE
  /\ healthResult = "none"
  /\ cleanBtn = CleanIdle

RendererReset ==
  /\ syncing' = FALSE
  /\ appStatus' = "ready"
  /\ lastSyncTime' = 0
  /\ logOutput' = << Placeholder >>
  /\ scrollTop' = 0
  /\ checking' = FALSE
  /\ healthResult' = "none"
  /\ cleanBtn' = CleanIdle

\* clear-log-btn click, renderer.js 321-323
ClearLog ==
  /\ ~appQuit /\ win # 0
  /\ logOutput # << Placeholder >>
  /\ logOutput' = << Placeholder >>
  /\ scrollTop' = 0
  /\ UNCHANGED << cfgVars, taskVars, envVars, supVars, syncing, appStatus, lastSyncTime,
                  checking, healthResult, cleanBtn >>

\* the click is taken in every state of the button
StartSyncClick_NoGuard(force) ==
  /\ ~appQuit /\ win # 0
  /\ SyncSent < MaxSyncs
  /\ syncing' = TRUE
  /\ appStatus' = "syncing"
  /\ logOutput' = Log(<< >>, Entry(<< "Initializing..." >>, 0, "init", 0))
  /\ scrollTop' = ScrollAfterLog(<< >>, 0)
  /\ toMain' = Append(toMain, Cmd("run-sync", force, win))
  /\ UNCHANGED << lastSyncTime, checking, healthResult, cleanBtn >>
  /\ UNCHANGED << cfgVars, taskVars, envVars, appQuit, uncaught, wins, win, toUI, children, probes >>

\* startSyncBtn click, renderer.js 326-342
StartSyncClick(force) ==
  /\ ~appQuit /\ win # 0
  /\ SyncSent < MaxSyncs
  /\ IF syncing
       THEN UNCHANGED << uiVars, toMain >>
       ELSE /\ syncing' = TRUE
            /\ appStatus' = "syncing"
            /\ logOutput' = Log(<< >>, Entry(<< "Initializing..." >>, 0, "init", 0))
            /\ scrollTop' = ScrollAfterLog(<< >>, 0)
            /\ toMain' = Append(toMain, Cmd("run-sync", force, win))
            /\ UNCHANGED << lastSyncTime, checking, healthResult, cleanBtn >>
  /\ UNCHANGED << cfgVars, taskVars, envVars, appQuit, uncaught, wins, win, toUI, children, probes >>

\* runHealthCheck, renderer.js 390-399 (up to the invoke)
HealthCheckClick ==
  /\ ~appQuit /\ win # 0
  /\ ~checking
  /\ ProbeSent < MaxProbes
  /\ checking' = TRUE
  /\ healthResult' = "none"
  /\ toMain' = Append(toMain, Cmd("health-check", FALSE, win))
  /\ UNCHANGED << cfgVars, taskVars, envVars, appQuit, uncaught, wins, win, toUI, children, probes,
                  syncing, appStatus, lastSyncTime, logOutput, scrollTop, cleanBtn >>

\* a log line puts the button back as sync-finished does
OnSyncLog_EndsSyncing(m) ==
  /\ logOutput' = Log(logOutput, Entry(Trim(m.text), m.c, m.stream, m.n))
  /\ scrollTop' = ScrollAfterLog(logOutput, scrollTop)
  /\ syncing' = FALSE
  /\ UNCHANGED << appStatus, lastSyncTime, checking, healthResult, cleanBtn >>

\* ipcRenderer.on('sync-log'), renderer.js 344-346
OnSyncLog(m) ==
  /\ logOutput' = Log(logOutput, Entry(Trim(m.text), m.c, m.stream, m.n))
  /\ scrollTop' = ScrollAfterLog(logOutput, scrollTop)
  /\ UNCHANGED << syncing, appStatus, lastSyncTime, checking, healthResult, cleanBtn >>

\* the time is stamped on every outcome
OnSyncFinished_AlwaysStamp(m) ==
  /\ syncing' = FALSE
  /\ logOutput' = Log(logOutput,
                      Entry(IF m.ok THEN << "\n", "Sync completed" >>
                                    ELSE << "\n", "Sync failed" >>, m.c, "finished", 0))
  /\ scrollTop' = ScrollAfterLog(logOutput, scrollTop)
  /\ appStatus' = IF m.ok THEN "ready" ELSE "error"
  /\ lastSyncTime' = lastSyncTime + 1
  /\ UNCHANGED << checking, healthResult, cleanBtn >>

\* ipcRenderer.on('sync-finished'), renderer.js 348-362
OnSyncFinished(m) ==
  /\ syncing' = FALSE
  /\ scrollTop' = ScrollAfterLog(logOutput, scrollTop)
  /\ IF m.ok
       THEN /\ logOutput' = Log(logOutput, Entry(<< "\n", "Sync completed" >>, m.c, "finished", 0))
            /\ appStatus' = "ready"
            /\ lastSyncTime' = lastSyncTime + 1
       ELSE /\ logOutput' = Log(logOutput, Entry(<< "\n", "Sync failed" >>, m.c, "finished", 0))
            /\ appStatus' = "error"
            /\ lastSyncTime' = lastSyncTime
  /\ UNCHANGED << checking, healthResult, cleanBtn >>

\* runHealthCheck after the invoke answers, renderer.js 399-411
OnHealthResult(m) ==
  /\ healthResult' = IF m.ok THEN "passed" ELSE "failed"
  /\ checking' = FALSE
  /\ UNCHANGED << syncing, appStatus, lastSyncTime, logOutput, scrollTop, cleanBtn >>

\* cleanBackups, renderer.js 415-423; a disabled button takes no click
CleanBackupsClick(confirmed) ==
  /\ ~appQuit /\ win # 0
  /\ ~cleanBtn.disabled
  /\ CleanSent < MaxCleans
  /\ IF confirmed
       THEN /\ cleanBtn' = [cleanBtn EXCEPT !.disabled = TRUE, !.text = "cleaning"]
            /\ toMain' = Append(toMain, Cmd("run-clean", FALSE, win))
       ELSE UNCHANGED << cleanBtn, toMain >>
  /\ UNCHANGED << cfgVars, taskVars, envVars, appQuit, uncaught, wins, win, toUI, children, probes,
                  syncing, appStatus, lastSyncTime, logOutput, scrollTop, checking,
                  healthResult >>

\* ipcRenderer.on('clean-finished'), renderer.js 425-432
OnCleanFinished(m) ==
  /\ cleanBtn' = [disabled |-> FALSE,
                  text |-> IF m.ok THEN "cleaned" ELSE "error",
                  timers |-> cleanBtn.timers + 1]
  /\ UNCHANGED << syncing, appStatus, lastSyncTime, logOutput, scrollTop, checking,
                  healthResult >>

\* the timer of renderer.js 429-431 fires
ResetCleanText ==
  /\ ~appQuit /\ win # 0
  /\ cleanBtn.timers > 0
  /\ cleanBtn' = [cleanBtn EXCEPT !.text = "cleanBackups", !.timers = @ - 1]
  /\ UNCHANGED << cfgVars, taskVars, envVars, supVars, syncing, appStatus, lastSyncTime,
                  logOutput, scrollTop,
                  checking, healthResult >>

\* the user scrolls the log view
ScrollLog(y) ==
  /\ ~appQuit /\ win # 0
  /\ y \in 0 .. MaxScroll(logOutput) /\ y # scrollTop
  /\ scrollTop' = y
  /\ UNCHANGED << cfgVars, taskVars, envVars, supVars, syncing, appStatus, lastSyncTime,
                  logOutput, checking, healthResult, cleanBtn >>

(***************************************************************************)
(* Renderer: task cards, renderer.js 292-303, 435-520                      *)
(***************************************************************************)
\* a task object of config.tasks
TaskObj(oid, val) == [oid |-> oid, val |-> val]

\* config.tasks as an invoke's argument carries it
Payload(tasks) == [i \in DOMAIN tasks |-> tasks[i].val]

\* init(), lines 292-303: config is what get-config returns; a config
\* without tasks shows as an empty list (line 454)
Loaded(d) ==
  LET config == ReadConfig(d)
      l == IF "tasks" \in DOMAIN config THEN config["tasks"] ELSE << >>
  IN  [i \in DOMAIN l |-> TaskObj(i, l[i])]

\* task.key || ''
Field(val, k) == IF k \in DOMAIN val THEN val[k] ELSE ""

\* the checkboxes show the stored value as it is, nothing when there is none
Card_NoDefaults(t) ==
  [oid |-> t.oid,
   note |-> Field(t.val, "note"), local |-> Field(t.val, "local"),
   cloud |-> Field(t.val, "cloud"), vault |-> Field(t.val, "vault_root"),
   enabled |-> IF "enabled" \in DOMAIN t.val THEN t.val["enabled"] = TRUE ELSE FALSE,
   force |-> IF "force" \in DOMAIN t.val THEN t.val["force"] = TRUE ELSE FALSE]

\* lines 465-470: the inputs of the card of one task
Card(t) ==
  [oid |-> t.oid,
   note |-> Field(t.val, "note"), local |-> Field(t.val, "local"),
   cloud |-> Field(t.val, "cloud"), vault |-> Field(t.val, "vault_root"),
   enabled |-> IF "enabled" \in DOMAIN t.val THEN t.val["enabled"] # FALSE ELSE TRUE,
   force |-> IF "force" \in DOMAIN t.val THEN t.val["force"] = TRUE ELSE FALSE]

\* renderTasks, lines 452-520: one card per task, in order
RenderTasks(tasks) == [i \in DOMAIN tasks |-> Card(tasks[i])]

TasksRendered ==
  /\ uiTasks = Loaded(disk)
  /\ cards = RenderTasks(uiTasks)
  /\ confirm = 0

\* lines 437-444
NewTask ==
  [note |-> T("taskNamePlaceholder"), local |-> "", cloud |-> "", vault_root |-> "",
   enabled |-> TRUE, force |-> FALSE]

\* the identity of a newly created object: one no task and no card holds
FreshOid ==
  LET used == { uiTasks[i].oid : i \in DOMAIN uiTasks } \cup { cards[i].oid : i \in DOMAIN cards }
  IN  CHOOSE n \in 1 .. Cardinality(used) + 1 : n \notin used /\ \A m \in 1 .. n - 1 : m \in used

\* save-config invokes not yet answered to the renderer
Pending ==
  Cardinality({ i \in DOMAIN toMain : toMain[i].ch = "save-config" })
  + Cardinality({ i \in DOMAIN toUI : toUI[i].ch = "save-config" })

\* ipcRenderer.invoke('save-config', { tasks: config.tasks }), lines 479, 489;
\* op names the function that awaits the answer
SaveCmd(tasks, op) ==
  [ch |-> "save-config", force |-> FALSE, from |-> win,
   data |-> [tasks |-> Payload(tasks)], op |-> op]

\* add-task-btn click, lines 435-450
AddTaskClick ==
  /\ ~appQuit /\ win # 0 /\ confirm = 0
  /\ Len(uiTasks) < MaxCards
  /\ uiTasks' = Append(uiTasks, TaskObj(FreshOid, NewTask))
  /\ cards' = RenderTasks(uiTasks')
  /\ UNCHANGED << cfgVars, confirm, envVars, uiVars, supVars >>

\* lines 473-478: the card's inputs are written to the task object the card
\* was made for, in the list or not
StoreCard(tasks, card) ==
  [i \in DOMAIN tasks |->
     IF tasks[i].oid = card.oid
       THEN TaskObj(card.oid,
                    Spread(tasks[i].val,
                           [note |-> card.note, local |-> card.local, cloud |-> card.cloud,
                            vault_root |-> card.vault, enabled |-> card.enabled,
                            force |-> card.force]))
       ELSE tasks[i]]

\* saveTaskState, lines 472-480, once the inputs of card k read as `card`
SaveTaskState(k, card) ==
  /\ ~appQuit /\ win # 0 /\ confirm = 0
  /\ Pending < MaxPending
  /\ cards' = [cards EXCEPT ![k] = card]
  /\ uiTasks' = StoreCard(uiTasks, card)
  /\ toMain' = Append(toMain, SaveCmd(uiTasks', "saveTaskState"))
  /\ UNCHANGED << cfgVars, confirm, envVars, uiVars, appQuit, uncaught, wins, win, toUI,
                  children, probes >>

\* a change event of the note input, lines 482-484
NoteChange(k, v) ==
  /\ k \in DOMAIN cards /\ v # cards[k].note
  /\ SaveTaskState(k, [cards[k] EXCEPT !.note = v])

\* delete-task-btn click of card k, line 487: confirm() opens and blocks the
\* renderer
DeleteTaskClick(k) ==
  /\ ~appQuit /\ win # 0 /\ confirm = 0
  /\ k \in DOMAIN cards
  /\ Pending < MaxPending
  /\ confirm' = k
  /\ UNCHANGED << cfgVars, uiTasks, cards, envVars, uiVars, supVars >>

\* splice(index) without a count: everything from the index on goes
Splice_ToEnd(tasks, k) == SubSeq(tasks, 1, k - 1)

\* config.tasks.splice(index, 1), line 488, index = k - 1
Splice(tasks, k) ==
  IF k \in DOMAIN tasks
    THEN SubSeq(tasks, 1, k - 1) \o SubSeq(tasks, k + 1, Len(tasks))
    ELSE tasks

\* the answer is not looked at
ConfirmAnswer_Ignored(ok) ==
  /\ ~appQuit /\ win # 0 /\ confirm # 0
  /\ confirm' = 0
  /\ uiTasks' = Splice(uiTasks, confirm)
  /\ toMain' = Append(toMain, SaveCmd(uiTasks', "delete"))
  /\ UNCHANGED << cfgVars, cards, envVars, uiVars, appQuit, uncaught, wins, win, toUI,
                  children, probes >>

\* confirm() returns, lines 487-489 (up to the invoke)
ConfirmAnswer(ok) ==
  /\ ~appQuit /\ win # 0 /\ confirm # 0
  /\ confirm' = 0
  /\ IF ok
       THEN /\ uiTasks' = Splice(uiTasks, confirm)
            /\ toMain' = Append(toMain, SaveCmd(uiTasks', "delete"))
       ELSE UNCHANGED << uiTasks, toMain >>
  /\ UNCHANGED << cfgVars, cards, envVars, uiVars, appQuit, uncaught, wins, win, toUI,
                  children, probes >>

\* save-env-btn click, lines 365-377 (up to the invoke): both inputs, trimmed,
\* must hold something
SaveEnvClick(appId, appSecret) ==
  /\ ~appQuit /\ win # 0 /\ confirm = 0
  /\ Pending < MaxPending
  /\ IF appId = "" \/ appSecret = ""
       THEN UNCHANGED toMain
       ELSE toMain' = Append(toMain,
                             [ch |-> "save-config", force |-> FALSE, from |-> win,
                              data |-> [feishu_app_id |-> appId,
                                        feishu_app_secret |-> appSecret],
                              op |-> "saveEnv"])
  /\ UNCHANGED << cfgVars, taskVars, envVars, uiVars, appQuit, uncaught, wins, win, toUI,
                  children, probes >>

\* ipcMain.handle('save-config') answers an invoke, electron_main.js 121-150
SaveConfigCall ==
  /\ ~appQuit
  /\ Len(toMain) > 0 /\ Head(toMain).ch = "save-config"
  /\ LET m == Head(toMain) IN
       /\ WriteConfig(m.data)
       /\ toUI' = Send(toUI, m.from,
                       Msg("save-config", << m.op >>,
                           ~MergeThrows(LoadExisting(disk), m.data), 0, "invoke", 0))
  /\ toMain' = Tail(toMain)
  /\ UNCHANGED << lastLoad, taskVars, envVars, uiVars, appQuit, uncaught, wins, win,
                  children, probes >>

\* the await of line 479 or 489 returns; after a delete, line 490 renders
\* (a rejected invoke throws at the await)
OnSaveConfigDone ==
  /\ ~appQuit /\ win # 0 /\ confirm = 0
  /\ Len(toUI) > 0 /\ Head(toUI).ch = "save-config"
  /\ cards' = IF Head(toUI).ok /\ Head(toUI).text = << "delete" >>
                THEN RenderTasks(uiTasks) ELSE cards
  /\ toUI' = Tail(toUI)
  /\ UNCHANGED << cfgVars, uiTasks, confirm, envVars, uiVars, appQuit, uncaught, wins, win,
                  toMain, children, probes >>

\* the renderer of the open window takes the next message
DeliverToUI ==
  /\ ~appQuit /\ win # 0
  /\ Len(toUI) > 0 /\ Head(toUI).ch # "save-config"
  /\ LET m == Head(toUI) IN
       CASE m.ch = "sync-log"      -> OnSyncLog(m)
         [] m.ch = "sync-finished" -> OnSyncFinished(m)
         [] m.ch = "clean-finished" -> OnCleanFinished(m)
         [] OTHER                  -> OnHealthResult(m)
  /\ toUI' = Tail(toUI)
  /\ UNCHANGED << cfgVars, taskVars, envVars, appQuit, uncaught, wins, win, toMain, children, probes >>

(***************************************************************************)
(* Windows, electron_main.js 11-52                                         *)
(***************************************************************************)
\* the children of a closed window go on running; no renderer is left to
\* receive, in order, what they write
Detached(cs) ==
  [i \in DOMAIN cs |->
     IF cs[i].owner = win THEN [cs[i] EXCEPT !.nOut = 0, !.nErr = 0] ELSE cs[i]]

\* the user closes the window: app.on('window-all-closed')
WindowAllClosed ==
  /\ ~appQuit /\ win # 0
  /\ win' = 0
  /\ appQuit' = (platform # "darwin")
  /\ toUI' = << >>
  /\ children' = Detached(children)
  /\ RendererReset
  /\ UNCHANGED << cfgVars, taskVars, envVars, uncaught, wins, toMain, probes >>

\* app.on('activate') with no window open: createWindow()
Activate ==
  /\ ~appQuit /\ win = 0
  /\ wins < MaxWindows
  /\ wins' = wins + 1
  /\ win' = wins + 1
  /\ UNCHANGED << cfgVars, taskVars, envVars, uiVars, appQuit, uncaught, toMain, toUI, children,
                  probes >>

(***************************************************************************)
(* run-sync, electron_main.js 152-183                                      *)
(***************************************************************************)
\* the flag is pushed onto arguments that hold it from an earlier call
SyncArgs_ForceKept(force) ==
  IF force THEN Append(Append(GetPythonPath.args, "--force"), "--force")
  ELSE GetPythonPath.args

\* the flag is passed whatever the options
SyncArgs_AlwaysForce(force) == Append(GetPythonPath.args, "--force")

\* lines 153-158
SyncArgs(force) ==
  IF force THEN Append(GetPythonPath.args, "--force") ELSE GetPythonPath.args

StartText(command, args) ==
  << "Starting sync process...", "\n", "Command:", " ", command, " " >> \o Join(args)
  \o << "\n", "CWD:", " ", Cwd, "\n" >>

\* the child a run-sync command makes: a process is spawned whatever the
\* state of the children spawned before
SpawnSync(m, found) ==
  Append(children, Child("sync", m.from, GetPythonPath.command, SyncArgs(m.force), found))

\* the handler up to the end of its synchronous part; `found` is whether
\* the operating system finds the executable
RunSync(found) ==
  /\ ~appQuit
  /\ Len(toMain) > 0 /\ Head(toMain).ch = "run-sync"
  /\ LET m == Head(toMain)
         c == Len(children) + 1 IN
       /\ toUI' = Send(toUI, m.from,
                       Msg("sync-log", StartText(GetPythonPath.command, SyncArgs(m.force)),
                           FALSE, c, "start", 0))
       /\ children' = SpawnSync(m, found)
  /\ toMain' = Tail(toMain)
  /\ UNCHANGED << cfgVars, taskVars, envVars, uiVars, appQuit, uncaught, wins, win, probes >>

\* the payload of the sync-log event of a data event, lines 172 and 176
LogPayload(stream, text) ==
  IF stream = "stderr" THEN << "[ERROR]", " " >> \o text ELSE text

\* every data event is replied twice
SyncData_Twice(c, stream) ==
  /\ ~appQuit
  /\ children[c].mode = "sync" /\ Live(c)
  /\ LET k == (IF stream = "stdout" THEN children[c].nOut ELSE children[c].nErr) + 1
         m == Msg("sync-log", LogPayload(stream, ChunkText(stream, k)), FALSE, c, stream, k) IN
       /\ DataEvents(Len(children)) < MaxChunks
       /\ toUI' = Send(Send(toUI, children[c].owner, m), children[c].owner, m)
       /\ children' = IF children[c].owner # win THEN children
                      ELSE IF stream = "stdout"
                        THEN [children EXCEPT ![c].nOut = k]
                        ELSE [children EXCEPT ![c].nErr = k]
  /\ UNCHANGED << cfgVars, taskVars, envVars, uiVars, appQuit, uncaught, wins, win, toMain, probes >>

\* child.stdout.on('data') / child.stderr.on('data'), lines 171-177; data
\* events are numbered per stream as long as a renderer receives them
SyncData(c, stream) ==
  /\ ~appQuit
  /\ children[c].mode = "sync" /\ Live(c)
  /\ LET k == (IF stream = "stdout" THEN children[c].nOut ELSE children[c].nErr) + 1 IN
       /\ DataEvents(Len(children)) < MaxChunks
       /\ toUI' = Send(toUI, children[c].owner,
                       Msg("sync-log", LogPayload(stream, ChunkText(stream, k)),
                           FALSE, c, stream, k))
       /\ children' = IF children[c].owner # win THEN children
                      ELSE IF stream = "stdout"
                        THEN [children EXCEPT ![c].nOut = k]
                        ELSE [children EXCEPT ![c].nErr = k]
  /\ UNCHANGED << cfgVars, taskVars, envVars, uiVars, appQuit, uncaught, wins, win, toMain, probes >>

\* every exit code counts as success
CloseReplies_AnyCodeOk(q, c, code) ==
  Send(Send(q, children[c].owner,
            Msg("sync-log", << "\n", "Process exited with code", " ", CodeText(code) >>,
                FALSE, c, "exit", 0)),
       children[c].owner,
       Msg("sync-finished", << >>, code # CodeNull, c, "finished", 0))

\* sync-finished sent before the exit line
CloseReplies_FinishedFirst(q, c, code) ==
  Send(Send(q, children[c].owner,
            Msg("sync-finished", << >>, code = CodeZero, c, "finished", 0)),
       children[c].owner,
       Msg("sync-log", << "\n", "Process exited with code", " ", CodeText(code) >>,
           FALSE, c, "exit", 0))

\* the close handler sends the exit line alone
CloseReplies_LogOnly(q, c, code) ==
  Send(q, children[c].owner,
       Msg("sync-log", << "\n", "Process exited with code", " ", CodeText(code) >>,
           FALSE, c, "exit", 0))

\* the messages of the close handler, in the order it sends them, lines 180-181
CloseReplies(q, c, code) ==
  Send(Send(q, children[c].owner,
            Msg("sync-log", << "\n", "Process exited with code", " ", CodeText(code) >>,
                FALSE, c, "exit", 0)),
       children[c].owner,
       Msg("sync-finished", << >>, code = CodeZero, c, "finished", 0))

\* child.on('close'), lines 179-182: the process has ended and its streams
\* are closed
SyncClose(c) ==
  /\ ~appQuit
  /\ children[c].mode = "sync" /\ children[c].st = "exited"
  /\ toUI' = CloseReplies(toUI, c, children[c].code)
  /\ children' = [children EXCEPT ![c] = Closed(@)]
  /\ UNCHANGED << cfgVars, taskVars, envVars, uiVars, appQuit, uncaught, wins, win, toMain, probes >>

(***************************************************************************)
(* run-clean, electron_main.js 212-227                                     *)
(***************************************************************************)
\* the cleanup argument is left out
CleanArgs_Plain == GetPythonPath.args

\* line 216
CleanArgs == Append(GetPythonPath.args, "--clean")

\* the event is sent when the process is spawned
RunClean_ReplyAtSpawn(found) ==
  /\ ~appQuit
  /\ Len(toMain) > 0 /\ Head(toMain).ch = "run-clean"
  /\ children' = Append(children,
                        Child("clean", Head(toMain).from, GetPythonPath.command, CleanArgs,
                              found))
  /\ toUI' = Send(toUI, Head(toMain).from,
                  Msg("clean-finished", << >>, TRUE, Len(children) + 1, "clean", 0))
  /\ toMain' = Tail(toMain)
  /\ UNCHANGED << cfgVars, taskVars, envVars, uiVars, appQuit, uncaught, wins, win, probes >>

\* the handler up to the end of its synchronous part, lines 212-218
RunClean(found) ==
  /\ ~appQuit
  /\ Len(toMain) > 0 /\ Head(toMain).ch = "run-clean"
  /\ children' = Append(children,
                        Child("clean", Head(toMain).from, GetPythonPath.command, CleanArgs,
                              found))
  /\ toMain' = Tail(toMain)
  /\ UNCHANGED << cfgVars, taskVars, envVars, uiVars, appQuit, uncaught, wins, win, toUI, probes >>

\* lines 220-222: the output is gathered and never used
CleanData(c, stream) ==
  /\ ~appQuit
  /\ children[c].mode = "clean" /\ Live(c)
  /\ DataEvents(Len(children)) < MaxChunks
  /\ children' = IF stream = "stdout"
                   THEN [children EXCEPT ![c].nOut = @ + 1]
                   ELSE [children EXCEPT ![c].nErr = @ + 1]
  /\ UNCHANGED << cfgVars, taskVars, envVars, uiVars, appQuit, uncaught, wins, win, toMain, toUI,
                  probes >>

\* child.on('close'), lines 224-226
CleanClose(c) ==
  /\ ~appQuit
  /\ children[c].mode = "clean" /\ children[c].st = "exited"
  /\ toUI' = Send(toUI, children[c].owner,
                  Msg("clean-finished", << >>, children[c].code = CodeZero, c, "clean", 0))
  /\ children' = [children EXCEPT ![c] = Closed(@)]
  /\ UNCHANGED << cfgVars, taskVars, envVars, uiVars, appQuit, uncaught, wins, win, toMain, probes >>

(***************************************************************************)
(* The worker process and the operating system                             *)
(***************************************************************************)
\* a running worker ends by itself or by a signal from outside the application
WorkerExit(c, code) ==
  /\ children[c].st = "running"
  /\ children' = [children EXCEPT ![c].st = "exited", ![c].code = code]
  /\ UNCHANGED << cfgVars, taskVars, envVars, uiVars, appQuit, uncaught, wins, win, toMain, toUI,
                  probes >>

\* spawn did not find the executable: the child emits 'error'; no handler
\* listens for it (lines 169-182, 193-201), so the emit throws
SpawnError(c) ==
  /\ ~appQuit
  /\ children[c].st = "spawnfail"
  /\ children' = [children EXCEPT ![c].st = "errored"]
  /\ uncaught' = TRUE
  /\ UNCHANGED << cfgVars, taskVars, envVars, uiVars, appQuit, wins, win, toMain, toUI, probes >>

(***************************************************************************)
(* health-check, electron_main.js 186-209                                  *)
(***************************************************************************)
\* the value a health-check promise resolves with
Result(success, output) == [success |-> success, output |-> output]

Probe(c, owner) ==
  [c |-> c, owner |-> owner, output |-> << >>, settled |-> FALSE, timer |-> "armed"]

\* kill reaches a running sync worker instead
KillTarget_SyncWorker(p) ==
  IF \E c \in ChildIds : children[c].mode = "sync" /\ children[c].st = "running"
    THEN CHOOSE c \in ChildIds : children[c].mode = "sync" /\ children[c].st = "running"
    ELSE probes[p].c

\* the process child.kill() signals: the probe's own child
KillTarget(p) == probes[p].c

\* the signal is never sent
Kill_NotSent(cs, c) == cs

\* child.kill(): SIGTERM ends a running process; nothing to signal otherwise
Kill(cs, c) ==
  IF cs[c].st = "running" THEN [cs EXCEPT ![c].st = "exited", ![c].code = CodeNull] ELSE cs

\* every call answers
Resolve_EveryCall(q, p, v) ==
  Send(q, probes[p].owner, Msg("health-result", v.output, v.success, probes[p].c, "probe", 0))

\* resolve(v) answers the invoke the first time it is called for a promise
\* and does nothing afterwards
Resolve(q, p, v) ==
  IF probes[p].settled THEN q
  ELSE Send(q, probes[p].owner,
            Msg("health-result", v.output, v.success, probes[p].c, "probe", 0))

\* the promise stays pending whatever is resolved
Settle_StaysPending(pr, closed, fired) ==
  [pr EXCEPT !.timer = IF fired THEN "fired" ELSE @]

\* once the child is closed and the timer has fired nothing refers to the
\* promise's closure any more
Settle(pr, closed, fired) ==
  IF closed /\ fired
    THEN [pr EXCEPT !.output = << >>, !.settled = TRUE, !.timer = "fired"]
    ELSE [pr EXCEPT !.settled = TRUE, !.timer = IF fired THEN "fired" ELSE @]

\* the handler up to the end of its synchronous part, lines 187-207
HealthCheck(found) ==
  /\ ~appQuit
  /\ Len(toMain) > 0 /\ Head(toMain).ch = "health-check"
  /\ LET m == Head(toMain) IN
       /\ children' = Append(children,
                             Child("probe", m.from, GetPythonPath.command, << "--help" >>, found))
       /\ probes' = Append(probes, Probe(Len(children) + 1, m.from))
  /\ toMain' = Tail(toMain)
  /\ UNCHANGED << cfgVars, taskVars, envVars, uiVars, appQuit, uncaught, wins, win, toUI >>

\* lines 196-197: output += data.toString()
ProbeData(p, stream) ==
  /\ ~appQuit
  /\ Live(probes[p].c)
  /\ LET c == probes[p].c
         k == (IF stream = "stdout" THEN children[c].nOut ELSE children[c].nErr) + 1 IN
       /\ DataEvents(Len(children)) < MaxChunks
       /\ probes' = [probes EXCEPT ![p].output = @ \o ChunkText(stream, k)]
       /\ children' = IF stream = "stdout"
                        THEN [children EXCEPT ![c].nOut = k]
                        ELSE [children EXCEPT ![c].nErr = k]
  /\ UNCHANGED << cfgVars, taskVars, envVars, uiVars, appQuit, uncaught, wins, win, toMain, toUI >>

\* lines 199-201
ProbeClose(p) ==
  /\ ~appQuit
  /\ children[probes[p].c].st = "exited"
  /\ toUI' = Resolve(toUI, p, Result(children[probes[p].c].code = CodeZero, probes[p].output))
  /\ probes' = [probes EXCEPT ![p] = Settle(@, TRUE, probes[p].timer = "fired")]
  /\ children' = [children EXCEPT ![probes[p].c] = Closed(@)]
  /\ UNCHANGED << cfgVars, taskVars, envVars, uiVars, appQuit, uncaught, wins, win, toMain >>

\* lines 204-207: the timer set by setTimeout(..., 5000) fires; nothing
\* clears it
HealthTimeout(p) ==
  /\ ~appQuit
  /\ probes[p].timer = "armed"
  /\ children' = Kill(children, KillTarget(p))
  /\ toUI' = Resolve(toUI, p, Result(FALSE, << "Timeout" >>))
  /\ probes' = [probes EXCEPT
                  ![p] = Settle(@, children[probes[p].c].st \in {"closed", "errored"}, TRUE)]
  /\ UNCHANGED << cfgVars, taskVars, envVars, uiVars, appQuit, uncaught, wins, win, toMain >>

(***************************************************************************)
(* Specifications                                                          *)
(***************************************************************************)
NoProcesses ==
  /\ appQuit = FALSE
  /\ uncaught = FALSE
  /\ wins = 1
  /\ win = 1
  /\ toMain = << >>
  /\ toUI = << >>
  /\ children = << >>
  /\ probes = << >>

\* the Config Store alone, over every file it may find
InitConfig ==
  /\ disk \in InitialFiles
  /\ lastSave = NoSave
  /\ lastLoad = NoLoad
  /\ TasksRendered
  /\ currentLang = "en"
  /\ platform = "darwin"
  /\ isPackaged = FALSE
  /\ RendererLoaded
  /\ NoProcesses

NextConfig == \E data \in Partials : SaveConfig(data)

SpecConfig == InitConfig /\ [][NextConfig]_vars

\* the partials the renderer sends: both credentials (renderer.js 374-377) or
\* the task list (renderer.js 479, 489)
UiPartials ==
  { p \in Partials :
      DOMAIN p = {"feishu_app_id", "feishu_app_secret"} \/ DOMAIN p = {"tasks"} }

\* get-config over every file it may find and over what the renderer's
\* saves leave
NextLoad ==
  \/ GetConfig
  \/ \E data \in UiPartials : SaveConfig(data)

SpecLoad == InitConfig /\ [][NextLoad]_vars

\* the supervisor, the bridge and the renderer after app.whenReady()
Init ==
  /\ disk = File("missing", EmptyObj, << >>)
  /\ lastSave = NoSave
  /\ lastLoad = NoLoad
  /\ TasksRendered
  /\ currentLang = "en"
  /\ platform \in Platforms
  /\ isPackaged = FALSE
  /\ RendererLoaded
  /\ NoProcesses

Next ==
  \/ \E force \in BOOLEAN : StartSyncClick(force)
  \/ DeliverToUI
  \/ ClearLog
  \/ WindowAllClosed
  \/ Activate
  \/ \E found \in BOOLEAN : RunSync(found)
  \/ \E c \in ChildIds, stream \in {"stdout", "stderr"} : SyncData(c, stream)
  \/ \E c \in ChildIds : SyncClose(c)
  \/ \E c \in ChildIds, code \in ExitCodes : WorkerExit(c, code)
  \/ \E c \in ChildIds : SpawnError(c)

Spec == Init /\ [][Next]_vars

\* health probes beside one sync session (its output left out), in one window
InitHealth ==
  /\ disk = File("missing", EmptyObj, << >>)
  /\ lastSave = NoSave
  /\ lastLoad = NoLoad
  /\ TasksRendered
  /\ currentLang = "en"
  /\ platform = "linux"
  /\ isPackaged = FALSE
  /\ RendererLoaded
  /\ NoProcesses

NextHealth ==
  \/ HealthCheckClick
  \/ \E found \in BOOLEAN : HealthCheck(found)
  \/ \E p \in ProbeIds, stream \in {"stdout", "stderr"} : ProbeData(p, stream)
  \/ \E p \in ProbeIds : ProbeClose(p)
  \/ \E p \in ProbeIds : HealthTimeout(p)
  \/ \E c \in ChildIds, code \in ExitCodes : WorkerExit(c, code)
  \/ \E c \in ChildIds : SpawnError(c)
  \/ DeliverToUI
  \/ SyncSent = 0 /\ StartSyncClick(FALSE)
  \/ RunSync(TRUE)
  \/ \E c \in ChildIds : SyncClose(c)

SpecHealth == InitHealth /\ [][NextHealth]_vars

\* cleanup beside one sync session (its output left out), in both
\* deployment modes
InitTools ==
  /\ disk = File("missing", EmptyObj, << >>)
  /\ lastSave = NoSave
  /\ lastLoad = NoLoad
  /\ TasksRendered
  /\ currentLang = "en"
  /\ platform \in Platforms
  /\ isPackaged \in BOOLEAN
  /\ RendererLoaded
  /\ NoProcesses

NextTools ==
  \/ \E confirmed \in BOOLEAN : CleanBackupsClick(confirmed)
  \/ \E found \in BOOLEAN : RunClean(found)
  \/ \E c \in ChildIds, stream \in {"stdout", "stderr"} : CleanData(c, stream)
  \/ \E c \in ChildIds : CleanClose(c)
  \/ ResetCleanText
  \/ DeliverToUI
  \/ \E force \in BOOLEAN : SyncSent = 0 /\ StartSyncClick(force)
  \/ RunSync(TRUE)
  \/ \E c \in ChildIds : SyncClose(c)
  \/ \E c \in ChildIds, code \in ExitCodes : WorkerExit(c, code)
  \/ \E c \in ChildIds : SpawnError(c)

SpecTools == InitTools /\ [][NextTools]_vars

TaskA == [note |-> "A", local |-> "/a", cloud |-> "t1"]
TaskB == [note |-> "B", local |-> "/b", cloud |-> "t2"]
TaskC == [note |-> "C", local |-> "/c", cloud |-> "t3"]

\* files the task cards start from: none, the legacy form, a document
TaskFiles ==
  { File("missing", EmptyObj, << >>),
    File("array", EmptyObj, << TaskA >>),
    File("array", EmptyObj, << TaskA, TaskB, TaskC >>),
    File("record",
         [k \in DocKeys |-> IF k = "tasks" THEN << TaskB, TaskA >> ELSE "kept"], << >>) }

\* what the user types: the note emptied
NoteInputs == {""}

\* the task cards and the Config Store behind them
InitTasks ==
  /\ disk \in TaskFiles
  /\ lastSave = NoSave
  /\ lastLoad = NoLoad
  /\ TasksRendered
  /\ currentLang = "en"
  /\ platform = "linux"
  /\ isPackaged = FALSE
  /\ RendererLoaded
  /\ NoProcesses

NextTasks ==
  \/ AddTaskClick
  \/ \E k \in DOMAIN cards, v \in NoteInputs : NoteChange(k, v)
  \/ \E k \in DOMAIN cards : DeleteTaskClick(k)
  \/ \E ok \in BOOLEAN : ConfirmAnswer(ok)
  \/ SaveConfigCall
  \/ OnSaveConfigDone

SpecTasks == InitTasks /\ [][NextTasks]_vars

\* the optional fields a stored task may hold
OptionalKeys == {"vault_root", "enabled", "force"}

OptionalParts ==
  UNION { { [k \in D |-> CASE k = "vault_root" -> f[1]
                            [] k = "enabled"    -> f[2]
                            [] OTHER            -> f[3]] :
              f \in {"", "/v"} \X BOOLEAN \X BOOLEAN } :
          D \in SUBSET OptionalKeys }

\* documents of one task, over every choice of its optional fields
OptionalFiles ==
  { File("record", [tasks |-> << Spread(TaskA, o) >>], << >>) : o \in OptionalParts }

\* the task cards over stored tasks with and without optional fields
InitDefaults ==
  /\ disk \in OptionalFiles
  /\ lastSave = NoSave
  /\ lastLoad = NoLoad
  /\ TasksRendered
  /\ currentLang = "en"
  /\ platform = "linux"
  /\ isPackaged = FALSE
  /\ RendererLoaded
  /\ NoProcesses

SpecDefaults == InitDefaults /\ [][NextTasks]_vars

\* the language settings localStorage may hold: the two options of the
\* select, and one no table exists for
LangSettings == {"en", "zh", "fr"}

\* the task cards under every language setting
InitLang ==
  /\ disk = File("missing", EmptyObj, << >>)
  /\ lastSave = NoSave
  /\ lastLoad = NoLoad
  /\ TasksRendered
  /\ currentLang \in LangSettings
  /\ platform = "linux"
  /\ isPackaged = FALSE
  /\ RendererLoaded
  /\ NoProcesses

NextLang ==
  \/ \E lang \in DOMAIN I18n : SaveUI(lang)
  \/ NextTasks

SpecLang == InitLang /\ [][NextLang]_vars

\* what the user types into the two credential inputs
IdInputs == {"", "cli_new"}
SecretInputs == {"sec_new"}

\* the files the renderer's saves meet: none, the legacy form, a document
SaveFiles ==
  { File("missing", EmptyObj, << >>),
    File("array", EmptyObj, << TaskA >>),
    File("record",
         [k \in DocKeys |-> IF k = "tasks" THEN << TaskB >> ELSE "kept"], << >>) }

\* the renderer's two kinds of save, of credentials and of tasks, issued
\* side by side
InitSaves ==
  /\ disk \in SaveFiles
  /\ lastSave = NoSave
  /\ lastLoad = NoLoad
  /\ TasksRendered
  /\ currentLang = "en"
  /\ platform = "linux"
  /\ isPackaged = FALSE
  /\ RendererLoaded
  /\ NoProcesses

NextSaves ==
  \/ \E appId \in IdInputs, appSecret \in SecretInputs : SaveEnvClick(appId, appSecret)
  \/ AddTaskClick
  \/ \E k \in DOMAIN cards, v \in NoteInputs : NoteChange(k, v)
  \/ SaveConfigCall
  \/ OnSaveConfigDone

SpecSaves == InitSaves /\ [][NextSaves]_vars

\* one window's log view during sync sessions, the user scrolling it
InitLog ==
  /\ disk = File("missing", EmptyObj, << >>)
  /\ lastSave = NoSave
  /\ lastLoad = NoLoad
  /\ TasksRendered
  /\ currentLang = "en"
  /\ platform = "linux"
  /\ isPackaged = FALSE
  /\ RendererLoaded
  /\ NoProcesses

NextLog ==
  \/ \E force \in BOOLEAN : StartSyncClick(force)
  \/ RunSync(TRUE)
  \/ \E c \in ChildIds, stream \in {"stdout", "stderr"} : SyncData(c, stream)
  \/ \E c \in ChildIds, code \in ExitCodes : WorkerExit(c, code)
  \/ \E c \in ChildIds : SyncClose(c)
  \/ DeliverToUI
  \/ ClearLog
  \/ \E y \in 0 .. MaxScroll(logOutput) : ScrollLog(y)

SpecLog == InitLog /\ [][NextLog]_vars

\* the three kinds of worker side by side, in both deployment modes: sync
\* sessions, health probes and one cleanup, every worker found and ending
\* with code 0
NextSpawn ==
  \/ \E force \in BOOLEAN : StartSyncClick(force)
  \/ RunSync(TRUE)
  \/ HealthCheckClick
  \/ HealthCheck(TRUE)
  \/ CleanSent = 0 /\ CleanBackupsClick(TRUE)
  \/ RunClean(TRUE)
  \/ \E c \in ChildIds : WorkerExit(c, CodeZero)
  \/ \E c \in ChildIds : SyncClose(c)
  \/ \E p \in ProbeIds : ProbeClose(p)
  \/ \E c \in ChildIds : CleanClose(c)
  \/ DeliverToUI

SpecSpawn == InitTools /\ [][NextSpawn]_vars

\* health probes alone
NextProbe ==
  \/ HealthCheckClick
  \/ \E found \in BOOLEAN : HealthCheck(found)
  \/ \E p \in ProbeIds, stream \in {"stdout", "stderr"} : ProbeData(p, stream)
  \/ \E p \in ProbeIds : ProbeClose(p)
  \/ \E p \in ProbeIds : HealthTimeout(p)
  \/ \E c \in ChildIds, code \in ExitCodes : WorkerExit(c, code)
  \/ \E c \in ChildIds : SpawnError(c)
  \/ DeliverToUI

\* sync sessions and one cleanup of one window that stays open, workers
\* found or not
NextFinish ==
  \/ \E force \in BOOLEAN : StartSyncClick(force)
  \/ \E found \in BOOLEAN : RunSync(found)
  \/ \E confirmed \in BOOLEAN : CleanSent = 0 /\ CleanBackupsClick(confirmed)
  \/ \E found \in BOOLEAN : RunClean(found)
  \/ \E c \in ChildIds, code \in ExitCodes : WorkerExit(c, code)
  \/ \E c \in ChildIds : SpawnError(c)
  \/ \E c \in ChildIds : SyncClose(c)
  \/ \E c \in ChildIds : CleanClose(c)
  \/ ResetCleanText
  \/ DeliverToUI

\* a child that has exited emits 'close' and a message sent to the renderer
\* is handled while the two event loops run; nothing makes a worker exit
SpecFinishFair ==
  /\ InitLog
  /\ [][NextFinish]_vars
  /\ WF_vars(\E c \in ChildIds : SyncClose(c))
  /\ WF_vars(\E c \in ChildIds : CleanClose(c))
  /\ WF_vars(DeliverToUI)

\* a timer set by setTimeout fires while the main process runs its event loop
SpecHealthFair ==
  /\ InitHealth
  /\ [][NextProbe]_vars
  /\ WF_vars(\E p \in ProbeIds : HealthTimeout(p))

(***************************************************************************)
(* Configuration Document claims                                           *)
(***************************************************************************)
\* the fields of a document on disk: a record's own, a legacy bare list's
\* tasks (the form get-config normalises it to, electron_main.js 109-112)
OriginalFields(d) ==
  CASE d.kind = "record" -> d.obj
    [] d.kind = "array"  -> [k \in {"tasks"} |-> d.arr]
    [] OTHER             -> EmptyObj

IsConfigDocument(d) == d.kind \in {"missing", "array", "record"}

FieldUnion(o, p1, p2) ==
  [k \in DOMAIN o \cup DOMAIN p1 \cup DOMAIN p2 |->
     IF k \in DOMAIN p2 THEN p2[k] ELSE IF k \in DOMAIN p1 THEN p1[k] ELSE o[k]]

\* C1: after a save-config over a document in record form, every key of
\* that document that the partial does not name is still on disk with the
\* value it had (credentials survive a tasks-only save, tasks survive a
\* credentials-only save, keys the handler does not know survive both).
C1_UntouchedKeysKept ==
  (lastSave.done /\ lastSave.before.kind = "record") =>
    /\ lastSave.result = "ok"
    /\ disk.kind = "record"
    /\ \A k \in DOMAIN lastSave.before.obj \ DOMAIN lastSave.data :
         k \in DOMAIN disk.obj /\ disk.obj[k] = lastSave.before.obj[k]

\* a tasks-only save happened over a record holding credentials and an
\* unknown key, and changed the task list
C1_Witness ==
  /\ lastSave.done
  /\ lastSave.before.kind = "record"
  /\ DOMAIN lastSave.before.obj = DocKeys
  /\ DOMAIN lastSave.data = {"tasks"}
  /\ lastSave.data["tasks"] # lastSave.before.obj["tasks"]
  /\ disk.obj["tasks"] = lastSave.data["tasks"]
  /\ disk.obj["feishu_app_id"] = "cli_x"
  /\ disk.obj[UnknownKey] = "u-tok"

\* C2: for every original configuration document (record, legacy bare list
\* or no file) and every two saves p1 then p2 of partial documents with
\* disjoint keys, the file after both holds the field-wise union of the
\* original, p1 and p2.
C2_DisjointSavesGiveUnion ==
  [][ \A p2 \in Partials :
        ( /\ lastSave.done
          /\ SaveConfig(p2)
          /\ IsConfigDocument(lastSave.before)
          /\ DOMAIN lastSave.data \subseteq HandledKeys
          /\ DOMAIN p2 \subseteq HandledKeys
          /\ DOMAIN lastSave.data \cap DOMAIN p2 = {} )
        => disk' = File("record",
                        FieldUnion(OriginalFields(lastSave.before), lastSave.data, p2),
                        << >>) ]_vars

\* C11: get-config never raises; over a missing file and over a file that
\* does not parse it returns the default document: every credential field
\* the empty string, tasks the empty list.
C11_LoadFailsSoft ==
  lastLoad.done =>
    /\ ~lastLoad.raised
    /\ lastLoad.file.kind \in {"missing", "malformed"} =>
         /\ DOMAIN lastLoad.config = DOMAIN DefaultConfig
         /\ lastLoad.config["tasks"] = << >>
         /\ \A k \in DOMAIN lastLoad.config \ {"tasks"} : lastLoad.config[k] = ""

\* get-config has answered over a file that does not parse
C11_Witness ==
  lastLoad.done /\ lastLoad.file.kind = "malformed" /\ lastLoad.logged

\* C12: get-config over a bare list returns a record whose tasks is that
\* list, same length and order, and whose credential fields are the empty
\* string.
C12_LegacyListLoaded ==
  (lastLoad.done /\ lastLoad.file.kind = "array") =>
    /\ "tasks" \in DOMAIN lastLoad.config
    /\ Len(lastLoad.config["tasks"]) = Len(lastLoad.file.arr)
    /\ \A i \in 1 .. Len(lastLoad.file.arr) :
         lastLoad.config["tasks"][i] = lastLoad.file.arr[i]
    /\ \A k \in {"feishu_app_id", "feishu_app_secret"} :
         k \in DOMAIN lastLoad.config /\ lastLoad.config[k] = ""

\* get-config has answered over a bare list of two different tasks
C12_Witness ==
  /\ lastLoad.done /\ lastLoad.file.kind = "array"
  /\ Len(lastLoad.file.arr) = 2
  /\ lastLoad.file.arr[1] # lastLoad.file.arr[2]

\* C13: after a save-config that wrote the file, over a file that was
\* missing, did not parse, held a bare list or held a record, the file
\* holds a record.
C13_LegacyNeverWritten ==
  ( /\ lastSave.done /\ lastSave.result = "ok"
    /\ lastSave.before.kind \in {"missing", "malformed", "array", "record"} ) =>
      disk.kind = "record"

\* a save of tasks alone was written over a bare list
C13_Witness ==
  /\ lastSave.done /\ lastSave.result = "ok"
  /\ lastSave.before.kind = "array" /\ Len(lastSave.before.arr) > 0
  /\ DOMAIN lastSave.data = {"tasks"}
  /\ disk.kind = "record"

(***************************************************************************)
(* Process Supervisor and Event Bridge claims                              *)
(***************************************************************************)
IsSync(c) == children[c].mode = "sync"

\* what the renderer of the open window has logged, then what is on its way
\* to it
Trace == logOutput \o toUI

\* the data event numbers of one stream of one child, in Trace order
RECURSIVE NumbersOf(_, _, _)
NumbersOf(t, c, stream) ==
  IF Len(t) = 0 THEN << >>
  ELSE IF Head(t).c = c /\ Head(t).stream = stream
         THEN << Head(t).n >> \o NumbersOf(Tail(t), c, stream)
         ELSE NumbersOf(Tail(t), c, stream)

Produced(c, stream) == IF stream = "stdout" THEN children[c].nOut ELSE children[c].nErr

\* no log line was removed since the start of the session shown
LogKept == Len(logOutput) > 0 /\ logOutput[1].stream = "init"

\* C3: at most one sync worker that has not closed exists at any time.
C3_AtMostOneSyncWorker ==
  Cardinality({ c \in ChildIds : IsSync(c) /\ Live(c) }) <= 1

\* C4: the close handler of a sync worker sends the exit line and then one
\* sync-finished; a sync-finished is never sent for a worker that has not
\* closed, and nothing of its session follows it, neither on the way to the
\* renderer nor in its log.
C4_FinishedOnceAfterLogs ==
  /\ [](\A i \in DOMAIN Trace :
          Trace[i].stream = "finished" =>
            /\ children[Trace[i].c].st = "closed"
            /\ \A j \in DOMAIN Trace : j > i => Trace[j].c # Trace[i].c)
  /\ [][\A c \in ChildIds :
          (SyncClose(c) /\ children[c].owner = win) =>
            /\ Len(toUI') = Len(toUI) + 2
            /\ SubSeq(toUI', 1, Len(toUI)) = toUI
            /\ toUI'[Len(toUI) + 1].stream = "exit"
            /\ toUI'[Len(toUI) + 2] =
                 Msg("sync-finished", << >>, children[c].code = CodeZero, c, "finished", 0)]_vars

\* a session ran to its end: both streams wrote, the renderer has logged
\* the outcome after them
C4_Witness ==
  \E i, j, k \in DOMAIN logOutput :
    /\ i < j /\ j < k
    /\ logOutput[i].stream = "stdout"
    /\ logOutput[j].stream = "exit"
    /\ logOutput[k].stream = "finished"
    /\ logOutput[i].c = logOutput[k].c
    /\ \E e \in DOMAIN logOutput : logOutput[e].stream = "stderr"

\* C5: for each sync session of the open window and each stream, the log
\* lines and the events on their way carry the stream's data events in the
\* order they occurred, each once, none missing up to the last one
\* produced, and all of them as long as the log was not cleared; each line
\* holds the text of its data event.
C5_ChunksInOrder ==
  /\ \A c \in ChildIds, stream \in {"stdout", "stderr"} :
       LET ns == NumbersOf(Trace, c, stream) IN
         /\ \A i \in 1 .. Len(ns) - 1 : ns[i + 1] = ns[i] + 1
         /\ (LogKept /\ Len(ns) > 0) => ns[1] = 1
         /\ (IsSync(c) /\ Live(c) /\ children[c].owner = win) =>
              /\ Len(ns) > 0 => ns[Len(ns)] = Produced(c, stream)
              /\ LogKept => Len(ns) = Produced(c, stream)
  /\ \A i \in DOMAIN logOutput :
       logOutput[i].stream \in {"stdout", "stderr"} =>
         logOutput[i].text =
           Trim(LogPayload(logOutput[i].stream,
                           ChunkText(logOutput[i].stream, logOutput[i].n)))

\* two stdout data events of one session are in the log, in order
C5_Witness ==
  \E i, j \in DOMAIN logOutput :
    /\ i < j
    /\ logOutput[i].stream = "stdout" /\ logOutput[i].n = 1
    /\ logOutput[j].stream = "stdout" /\ logOutput[j].n = 2
    /\ logOutput[i].c = logOutput[j].c

\* C10: a sync worker that could not be spawned leaves no unhandled error in
\* the main process, and its renderer is told sync-finished(false) or has
\* left the syncing state.
C10_SpawnFailureSurfaced ==
  \A c \in ChildIds :
    (IsSync(c) /\ children[c].st = "errored") =>
      /\ ~uncaught
      /\ children[c].owner = win =>
           \/ ~syncing
           \/ \E i \in DOMAIN toUI :
                toUI[i].ch = "sync-finished" /\ toUI[i].c = c /\ ~toUI[i].ok

\* C14: a click on the sync button while it is in the syncing state sends
\* no run-sync, leaves the log, the button and the status as they are, and
\* so spawns nothing and adds no event.
C14_ClickWhileSyncingIgnored ==
  [][\A force \in BOOLEAN :
       (syncing /\ StartSyncClick(force)) =>
         UNCHANGED << toMain, toUI, children, logOutput, syncing, appStatus,
                      lastSyncTime >>]_vars

\* the button is in the syncing state, its worker runs and has written to
\* the log, and one more run-sync is within the bound
C14_Witness ==
  /\ syncing /\ win # 0 /\ ~appQuit
  /\ SyncSent < MaxSyncs
  /\ Len(logOutput) > 1
  /\ \E c \in ChildIds : IsSync(c) /\ children[c].st = "running" /\ children[c].owner = win

\* C15: on every sync-finished the renderer leaves the syncing state; on
\* success the last-synced time is set and the status is ready, on failure
\* the time is left as it is and the status is the error state.
C15_FinishedRecorded ==
  [][( /\ DeliverToUI
       /\ Len(toUI) > 0
       /\ Head(toUI).ch = "sync-finished" ) =>
         /\ ~syncing'
         /\ IF Head(toUI).ok
              THEN lastSyncTime' = lastSyncTime + 1 /\ appStatus' = "ready"
              ELSE lastSyncTime' = lastSyncTime /\ appStatus' = "error"]_vars

\* a failed session after a successful one: the status is the error state
\* and the time of the first is kept
C15_Witness ==
  /\ ~syncing /\ appStatus = "error" /\ lastSyncTime = 1
  /\ \E i \in DOMAIN logOutput : logOutput[i].stream = "finished"

\* C16: the sync-finished of a sync worker carries success exactly when the
\* worker closed with exit code 0: false for a non-zero code and for a close
\* without a code.
C16_SuccessIffCodeZero ==
  [][\A c \in ChildIds :
       (SyncClose(c) /\ children[c].owner = win) =>
         /\ toUI'[Len(toUI')].ch = "sync-finished"
         /\ toUI'[Len(toUI')].c = c
         /\ toUI'[Len(toUI')].ok = (children[c].code = CodeZero)]_vars

\* a worker ended by a signal: its exit line shows no code and its
\* sync-finished carries false
C16_Witness ==
  \E i \in 2 .. Len(toUI) :
    /\ toUI[i].ch = "sync-finished" /\ ~toUI[i].ok
    /\ toUI[i - 1].stream = "exit"
    /\ toUI[i - 1].text[Len(toUI[i - 1].text)] = "null"

IsClean(c) == children[c].mode = "clean"

CleanAnswers(q) == SelectSeq(q, LAMBDA m : m.ch = "clean-finished")

C18_WorkerArguments ==
  [][
    /\ \A found \in BOOLEAN :
         RunSync(found) =>
           /\ children'[Len(children')].command = GetPythonPath.command
           /\ children'[Len(children')].args =
                GetPythonPath.args \o (IF Head(toMain).force THEN << "--force" >> ELSE << >>)
    /\ \A found \in BOOLEAN :
         RunClean(found) =>
           /\ children'[Len(children')].command = GetPythonPath.command
           /\ children'[Len(children')].args = GetPythonPath.args \o << "--clean" >>
  ]_vars

\* packaged mode: a sync worker without --force and a cleanup worker run
C18_Witness ==
  /\ isPackaged
  /\ \E c \in ChildIds : IsSync(c) /\ Live(c) /\ children[c].args = << >>
  /\ \E c \in ChildIds : IsClean(c) /\ Live(c) /\ children[c].args = << "--clean" >>

\* the payloads of the events of one stream of one child, put together in
\* the order of the queue
RECURSIVE Payloads(_, _, _)
Payloads(q, c, stream) ==
  IF Len(q) = 0 THEN << >>
  ELSE (IF Head(q).c = c /\ Head(q).stream = stream THEN Head(q).text ELSE << >>)
       \o Payloads(Tail(q), c, stream)

\* what the worker wrote to a stream in its first n data events
RECURSIVE Written(_, _)
Written(stream, n) ==
  IF n = 0 THEN << >> ELSE Written(stream, n - 1) \o ChunkText(stream, n)

\* C20: for a sync session and each stream, the payloads of the stream's
\* sync-log events, put together in the order sent, are the text the worker
\* wrote to the stream (stated of a session whose events of the stream are
\* all still on their way to the renderer).
C20_StreamReproduced ==
  \A c \in ChildIds, stream \in {"stdout", "stderr"} :
    ( /\ IsSync(c) /\ Live(c) /\ children[c].owner = win
      /\ Len(NumbersOf(toUI, c, stream)) = Produced(c, stream) ) =>
        Payloads(toUI, c, stream) = Written(stream, Produced(c, stream))

Contains(text, tok) == \E i \in DOMAIN text : text[i] = tok

\* C21: a sync worker started with force that wrote the one stdout chunk
\* "done", nothing to stderr, and ended with code 0: when it closes, the
\* renderer has received or is about to receive, of this session, one
\* event for the chunk, the only one containing "done", and after it one
\* sync-finished, carrying true, as the last event.
C21_DoneScenario ==
  [][\A c \in ChildIds :
       ( /\ SyncClose(c)
         /\ children[c].owner = win /\ LogKept
         /\ Contains(children[c].args, "--force")
         /\ children[c].nOut = 1 /\ children[c].nErr = 0
         /\ children[c].code = CodeZero ) =>
           LET t == logOutput' \o toUI' IN
             /\ Len(NumbersOf(t, c, "stdout")) = 1
             /\ Cardinality({ i \in DOMAIN t : t[i].c = c /\ Contains(t[i].text, "done") }) = 1
             /\ Cardinality({ i \in DOMAIN t : t[i].c = c /\ t[i].stream = "finished" }) = 1
             /\ t[Len(t)] = Msg("sync-finished", << >>, TRUE, c, "finished", 0)
             /\ \A i \in DOMAIN t :
                  (t[i].c = c /\ Contains(t[i].text, "done")) => t[i].stream = "stdout"]_vars

\* the renderer has logged the whole scenario: the start line with --force,
\* the line "done", the exit line with code 0 and the success line
C21_Witness ==
  /\ Len(logOutput) = 5 /\ LogKept
  /\ logOutput[2].stream = "start" /\ Contains(logOutput[2].text, "--force")
  /\ logOutput[3].stream = "stdout" /\ logOutput[3].text = << "done" >>
  /\ logOutput[4].stream = "exit" /\ Contains(logOutput[4].text, "0")
  /\ logOutput[5].stream = "finished" /\ Contains(logOutput[5].text, "Sync completed")
  /\ ~syncing /\ appStatus = "ready"

(***************************************************************************)
(* Health Probe claims                                                     *)
(***************************************************************************)
Answers(q, c) == SelectSeq(q, LAMBDA m : m.ch = "health-result" /\ m.c = c)

\* C6: a health-check is answered once: by its close handler with
\* success = (exit code is 0) and the output accumulated so far when the
\* child closes before the timer fires, by its timer with
\* {success: false, output: "Timeout"}, the child no longer running, when
\* the timer fires first.
C6_ProbeResult ==
  [][\A p \in ProbeIds :
       LET c == probes[p].c IN
         /\ (ProbeClose(p) /\ ~probes[p].settled) =>
              toUI' = Append(toUI, Msg("health-result", probes[p].output,
                                       children[c].code = CodeZero, c, "probe", 0))
         /\ (HealthTimeout(p) /\ ~probes[p].settled) =>
              /\ toUI' = Append(toUI, Msg("health-result", << "Timeout" >>, FALSE, c,
                                          "probe", 0))
              /\ children'[c].st # "running"
         /\ probes[p].settled => Len(Answers(toUI', c)) <= Len(Answers(toUI, c))]_vars

\* a probe whose child wrote and exited with code 0 was answered with
\* success, and its timer has fired since
C6_Witness ==
  /\ healthResult = "passed"
  /\ \E p \in ProbeIds : probes[p].timer = "fired" /\ children[probes[p].c].st = "closed"

\* C7: every health-check's timer fires; once it has, the call is settled
\* and the probe's child is not running; a child still running when the
\* timer fires is answered {success: false, output: "Timeout"}.
C7_HungProbeTimesOut ==
  /\ \A p \in 1 .. MaxProbes :
       (Len(probes) >= p) ~> (Len(probes) >= p /\ probes[p].timer = "fired")
  /\ [](\A p \in ProbeIds :
          probes[p].timer = "fired" =>
            probes[p].settled /\ children[probes[p].c].st # "running")
  /\ [][\A p \in ProbeIds :
          (HealthTimeout(p) /\ children[probes[p].c].st = "running") =>
            toUI' = Append(toUI, Msg("health-result", << "Timeout" >>, FALSE,
                                     probes[p].c, "probe", 0))]_vars

\* a probe's child was ended by the timer's kill and the renderer shows the
\* failure
C7_Witness ==
  /\ healthResult = "failed"
  /\ \E p \in ProbeIds :
       /\ probes[p].timer = "fired"
       /\ children[probes[p].c].st = "exited"
       /\ children[probes[p].c].code = CodeNull

\* C8: once the probe's child has closed, its timeout callback does not run.
C8_NoTimeoutAfterClose ==
  [][\A p \in ProbeIds :
       children[probes[p].c].st = "closed" => ~HealthTimeout(p)]_vars

\* C9: no step of a health-check (its handler, its data events, its close
\* handler, its timer) changes a sync child, the renderer's sync state or
\* log, or the sync-log and sync-finished events in flight.
IsSyncEvent(m) == m.ch \in {"sync-log", "sync-finished"}

HealthStep ==
  \/ \E found \in BOOLEAN : HealthCheck(found)
  \/ \E p \in ProbeIds, stream \in {"stdout", "stderr"} : ProbeData(p, stream)
  \/ \E p \in ProbeIds : ProbeClose(p)
  \/ \E p \in ProbeIds : HealthTimeout(p)

C9_ProbeLeavesSyncAlone ==
  [][HealthStep =>
       /\ \A c \in ChildIds : IsSync(c) => children'[c] = children[c]
       /\ SelectSeq(toUI', IsSyncEvent) = SelectSeq(toUI, IsSyncEvent)
       /\ UNCHANGED << syncing, appStatus, lastSyncTime, logOutput >>]_vars

\* a probe's child was ended by the timer's kill while a sync worker runs
\* and the renderer is syncing
C9_Witness ==
  /\ syncing
  /\ \E c \in ChildIds : IsSync(c) /\ children[c].st = "running"
  /\ \E p \in ProbeIds :
       /\ probes[p].timer = "fired"
       /\ children[probes[p].c].st = "exited"
       /\ children[probes[p].c].code = CodeNull

\* C19: in both deployment modes the probe's process is spawned with the
\* resolved command and the resolved arguments followed by --help.
C19_ProbeRunsWorker ==
  \A c \in ChildIds :
    (children[c].mode = "probe" /\ children[c].st # "closed") =>
      /\ children[c].command = GetPythonPath.command
      /\ children[c].args = GetPythonPath.args \o << "--help" >>

(***************************************************************************)
(* Task list claims                                                        *)
(***************************************************************************)
\* the tasks of the document as get-config reads it
Persisted == ReadConfig(disk)["tasks"]

\* C22: neither the click on a card's delete button, which opens the
\* confirmation, nor a declined confirmation changes the task list or the
\* cards, sends a save-config or changes the file.
C22_DeclinedDeleteKeepsAll ==
  [][((\E k \in DOMAIN cards : DeleteTaskClick(k)) \/ ConfirmAnswer(FALSE)) =>
       /\ uiTasks' = uiTasks /\ cards' = cards
       /\ toMain' = toMain
       /\ disk' = disk /\ lastSave' = lastSave]_vars

\* the confirmation of a delete is open over a list that holds tasks, no
\* save-config made so far
C22_Witness ==
  /\ confirm \in DOMAIN uiTasks
  /\ ~lastSave.done /\ toMain = << >>

\* the list without its i-th element
Removed(l, i) == [j \in 1 .. Len(l) - 1 |-> IF j < i THEN l[j] ELSE l[j + 1]]

\* C23: a confirmed delete of the card at a valid position sends the list
\* without that one element, the others in their order, and save-config
\* makes the list it was sent the document's tasks.
C23_DeleteRemovesOne ==
  [][/\ (confirm \in DOMAIN uiTasks /\ ConfirmAnswer(TRUE)) =>
          /\ Len(toMain') = Len(toMain) + 1
          /\ toMain'[Len(toMain')].data = [tasks |-> Removed(Payload(uiTasks), confirm)]
          /\ Payload(uiTasks') = Removed(Payload(uiTasks), confirm)
     /\ (SaveConfigCall /\ Head(toMain).op = "delete") =>
          /\ disk'.kind = "record"
          /\ disk'.obj["tasks"] = Head(toMain).data["tasks"]]_vars

\* the one task of the legacy list was deleted: the document holds tasks = []
C23_Witness ==
  /\ lastSave.done /\ lastSave.result = "ok"
  /\ lastSave.before = File("array", EmptyObj, << TaskA >>)
  /\ lastSave.data = [tasks |-> << >>]
  /\ disk.kind = "record" /\ disk.obj["tasks"] = << >>
  /\ uiTasks = << >>

\* a task with its three required fields
Complete(t) == Field(t, "note") # "" /\ Field(t, "local") # "" /\ Field(t, "cloud") # ""

\* C24: no save-config in flight carries, and the document never holds, a
\* task whose note, local or cloud is empty.
C24_OnlyCompleteTasksSaved ==
  /\ \A i \in DOMAIN toMain :
       toMain[i].ch = "save-config" =>
         \A j \in DOMAIN toMain[i].data["tasks"] : Complete(toMain[i].data["tasks"][j])
  /\ \A j \in DOMAIN Persisted : Complete(Persisted[j])

\* C25: when no task operation is under way (no confirmation open, no
\* save-config unanswered) the document's tasks are the renderer's list.
C25_PersistedIsWorkingCopy ==
  (confirm = 0 /\ Pending = 0) => Persisted = Payload(uiTasks)

(***************************************************************************)
(* Log view claims                                                         *)
(***************************************************************************)
Lines(view) == SelectSeq(view, IsLine)

\* the view after holds the lines of the view before and one more after them
IsAppend(before, after) ==
  /\ after = Lines(after)
  /\ Len(after) = Len(Lines(before)) + 1
  /\ SubSeq(after, 1, Len(after) - 1) = Lines(before)

\* C26: every step leaves the log view as it is, or puts one line after the
\* lines it holds (only the placeholder goes), or is the clear action, which
\* leaves the placeholder alone, or is the start of a sync, which leaves the
\* first line of the new session alone.
C26_LogAppendOnly ==
  [][\/ logOutput' = logOutput
     \/ IsAppend(logOutput, logOutput')
     \/ ClearLog /\ logOutput' = << Placeholder >>
     \/ /\ \E force \in BOOLEAN : StartSyncClick(force)
        /\ Len(logOutput') = 1 /\ logOutput'[1].stream = "init"]_vars

\* the view holds a session's lines in the order they were logged: the
\* first line, the start line, a stdout line and a stderr line
C26_Witness ==
  /\ Len(logOutput) = 4
  /\ logOutput[1].stream = "init" /\ logOutput[2].stream = "start"
  /\ logOutput[3].stream = "stdout" /\ logOutput[4].stream = "stderr"
  /\ scrollTop = MaxScroll(logOutput)

\* C27: a step that appends a line leaves the view at its bottom if it was
\* at its bottom before, and leaves scrollTop as it was if not.
C27_ScrollFollowsOnlyAtBottom ==
  [][IsAppend(logOutput, logOutput') =>
       IF AtBottom(logOutput, scrollTop)
         THEN AtBottom(logOutput', scrollTop')
         ELSE scrollTop' = scrollTop]_vars

\* the user scrolled back and the view, longer than what it shows, with the
\* session's last line appended, is still not at its bottom
C27_Witness ==
  /\ Len(logOutput) > ClientLines + 1
  /\ logOutput[Len(logOutput)].stream = "finished"
  /\ ~AtBottom(logOutput, scrollTop)
  /\ toUI = << >> /\ ~syncing

(***************************************************************************)
(* Worker environment claims                                               *)
(***************************************************************************)
\* the working directory of each deployment mode
WorkDir == IF isPackaged THEN "resources" ELSE "project"

\* C28: in each deployment mode every worker spawned, sync, probe or
\* cleanup, has the mode's working directory (the project root in
\* development, the resource root when packaged), and the configuration
\* file is sync_config.json directly in that directory.
C28_OneWorkingDirectory ==
  /\ \A c \in ChildIds : children[c].st # "closed" => children[c].cwd = WorkDir
  /\ GetConfigPath = [dir |-> WorkDir, base |-> "sync_config.json"]

\* a development build with a sync, a probe and a cleanup worker running
C28_Witness ==
  /\ ~isPackaged
  /\ \A mode \in {"sync", "probe", "clean"} :
       \E c \in ChildIds :
         children[c].mode = mode /\ Live(c) /\ children[c].cwd = GetConfigPath.dir

\* the command and the base arguments of a mode and a platform
CommandOf(packaged, os) ==
  IF ~packaged THEN "python3"
  ELSE IF os = "win32" THEN "resources/python/doc-sync-core.exe"
  ELSE "resources/python/doc-sync-core"

BaseArgsOf(packaged) == IF packaged THEN << >> ELSE << "main.py" >>

Occurrences(a, tok) == Cardinality({ i \in DOMAIN a : a[i] = tok })

\* C29: whatever was spawned before, every spawn has the command of the
\* mode and the platform, and the arguments of a sync worker are the mode's
\* base arguments with --force once if the sync is forced and not at all
\* if it is not.
C29_ResolutionIndependentOfHistory ==
  [][Len(children') = Len(children) + 1 =>
       LET new == children'[Len(children')] IN
         /\ new.command = CommandOf(isPackaged, platform)
         /\ new.mode = "sync" =>
              /\ Occurrences(new.args, "--force") = (IF Head(toMain).force THEN 1 ELSE 0)
              /\ SelectSeq(new.args, LAMBDA a : a # "--force") = BaseArgsOf(isPackaged)]_vars

\* a packaged build: after a sync session that has closed, a sync worker
\* without --force runs
C29_Witness ==
  /\ isPackaged
  /\ \E c \in ChildIds :
       /\ children[c].mode = "sync" /\ Live(c) /\ children[c].args = BaseArgsOf(TRUE)
       /\ \E b \in 1 .. c - 1 : children[b].mode = "sync" /\ children[b].st = "closed"
  /\ \A c \in ChildIds : children[c].mode = "sync"

\* C30: no sync worker is live while a health-probe or a cleanup worker is.
C30_SyncNotBesideProbeOrCleanup ==
  \A a, b \in ChildIds :
    ~(/\ children[a].mode = "sync" /\ Live(a)
      /\ children[b].mode \in {"probe", "clean"} /\ Live(b))

(***************************************************************************)
(* Config Store error claims                                               *)
(***************************************************************************)
\* the record a file stands for when it is read for a save: its own when
\* it holds one, the empty default otherwise
UsableRecord(d) == IF d.kind = "record" THEN d.obj ELSE EmptyObj

\* C31: whatever the file held, a save-config call returns success and
\* leaves a record on disk: the usable record of the file before (the
\* default when it had none) with the partial's handled keys assigned.
C31_SaveRecoversLocally ==
  lastSave.done =>
    /\ lastSave.result = "ok"
    /\ disk = File("record",
                   [k \in DOMAIN UsableRecord(lastSave.before)
                            \cup (DOMAIN lastSave.data \cap HandledKeys) |->
                      IF k \in DOMAIN lastSave.data \cap HandledKeys
                        THEN lastSave.data[k]
                        ELSE UsableRecord(lastSave.before)[k]],
                   << >>)

(***************************************************************************)
(* Task default claims                                                     *)
(***************************************************************************)
\* the task object a card was made for, while the list holds it
TaskOfCard(k) ==
  { uiTasks[i].val : i \in { j \in DOMAIN uiTasks : uiTasks[j].oid = cards[k].oid } }

\* C32: the card of a task shows it disabled only if the task holds
\* enabled = false, forced only if it holds force = true, and with the
\* empty vault root if it holds no vault_root.
C32_OptionalFieldDefaults ==
  \A k \in DOMAIN cards : \A val \in TaskOfCard(k) :
    /\ ~cards[k].enabled <=> ("enabled" \in DOMAIN val /\ val["enabled"] = FALSE)
    /\ cards[k].force <=> ("force" \in DOMAIN val /\ val["force"] = TRUE)
    /\ "vault_root" \notin DOMAIN val => cards[k].vault = ""

\* the card of a stored task that holds none of the optional fields:
\* enabled, not forced, no vault root
C32_Witness ==
  /\ Len(cards) = 1 /\ Len(uiTasks) = 1
  /\ DOMAIN uiTasks[1].val = {"note", "local", "cloud"}
  /\ uiTasks[1].oid = cards[1].oid
  /\ cards[1].enabled /\ ~cards[1].force /\ cards[1].vault = ""

(***************************************************************************)
(* Translation claims                                                      *)
(***************************************************************************)
\* keys the renderer asks for, and one no table holds
KeysAsked == {"ready", "saved", "taskNamePlaceholder", "nonexistent"}

Credentials == {"feishu_app_id", "feishu_app_secret"}

\* C34: after a save-config of credentials alone over a file in the legacy
\* bare-list form that holds tasks, the document on disk holds those credentials and, as
\* its tasks, the tasks of the list.
C34_LegacyTasksSurviveCredentialSave ==
  ( /\ lastSave.done
    /\ lastSave.before.kind = "array" /\ Len(lastSave.before.arr) > 0
    /\ DOMAIN lastSave.data # {} /\ DOMAIN lastSave.data \subseteq Credentials ) =>
      /\ disk.kind = "record"
      /\ \A k \in DOMAIN lastSave.data : k \in DOMAIN disk.obj /\ disk.obj[k] = lastSave.data[k]
      /\ "tasks" \in DOMAIN disk.obj /\ disk.obj["tasks"] = lastSave.before.arr

(***************************************************************************)
(* Concurrent save claims                                                  *)
(***************************************************************************)
\* C35: each save-config call reads, merges and writes in one step, over the
\* file as the call before it left it: the keys it was sent are on disk
\* after it, and every other key of a document on disk keeps its value, so
\* a credentials save and a tasks save queued together both show in the
\* file whichever is handled first.
C35_NoLostUpdate ==
  [][SaveConfigCall =>
       LET data == Head(toMain).data IN
       /\ disk'.kind = "record"
       /\ \A k \in DOMAIN data : disk'.obj[k] = data[k]
       /\ disk.kind = "record" =>
            \A k \in DOMAIN disk.obj \ DOMAIN data :
               k \in DOMAIN disk'.obj /\ disk'.obj[k] = disk.obj[k]]_vars

\* a tasks save and then a credentials save were handled; the file holds both
C35_Witness ==
  /\ lastSave.done
  /\ DOMAIN lastSave.data = Credentials
  /\ lastSave.before.kind = "record"
  /\ DOMAIN lastSave.before.obj = DocKeys
  /\ Len(lastSave.before.obj["tasks"]) > 0
  /\ lastSave.before.obj["tasks"][1].note = ""
  /\ lastSave.before.obj["feishu_app_id"] # "cli_new"
  /\ disk.kind = "record"
  /\ disk.obj["tasks"] = lastSave.before.obj["tasks"]
  /\ disk.obj["feishu_app_id"] = "cli_new"
  /\ Pending = 0

\* the list without the task object a card was made for
WithoutShown(l, card) ==
  LET keep == { j \in DOMAIN l : l[j].oid # card.oid }
      Nth(n) == CHOOSE j \in keep : Cardinality({ m \in keep : m < j }) = n - 1
  IN [n \in 1 .. Cardinality(keep) |-> l[Nth(n)]]

\* C36: a confirmed delete on a card whose task is still in the list takes
\* from the list that task and no other, also while the cards are those of
\* an earlier render because another delete's save-config has not yet
\* returned.
C36_DeleteRemovesShownTask ==
  [][( /\ confirm \in DOMAIN cards
        /\ \E j \in DOMAIN uiTasks : uiTasks[j].oid = cards[confirm].oid
        /\ ConfirmAnswer(TRUE) ) =>
       uiTasks' = WithoutShown(uiTasks, cards[confirm])]_vars

(***************************************************************************)
(* Sync button claims                                                      *)
(***************************************************************************)
\* the sync workers the renderer of the open window started that have not
\* closed
OwnLiveSyncs ==
  { c \in ChildIds : children[c].mode = "sync" /\ Live(c)
                       /\ win # 0 /\ children[c].owner = win }

\* C37: while a sync worker started by the open window's renderer has not
\* closed, that renderer's sync button is in the syncing state.
C37_LiveSyncShowsSyncing == OwnLiveSyncs # {} => syncing

\* a second session of the same renderer is running after its first ended
C37_Witness ==
  /\ OwnLiveSyncs # {}
  /\ syncing
  /\ \E d \in ChildIds : children[d].mode = "sync" /\ children[d].st = "closed"
  /\ lastSyncTime > 0

(***************************************************************************)
(* Completion claims                                                       *)
(***************************************************************************)
\* a worker of the given kind, started by the open window's renderer, has
\* ended and not yet emitted 'close'
OwnExited(mode) ==
  \E c \in ChildIds : /\ children[c].mode = mode /\ children[c].st = "exited"
                       /\ children[c].owner = win

\* C38: once the worker of a sync session has ended, sync-finished reaches
\* the renderer and the button leaves the syncing state; once a cleanup
\* worker has ended, clean-finished re-enables the disabled clean button.
C38_StartedSyncEnds ==
  /\ (syncing /\ OwnExited("sync")) ~> ~syncing
  /\ (cleanBtn.disabled /\ OwnExited("clean")) ~> ~cleanBtn.disabled

\* a session and a cleanup have both ended in the UI
C38_Witness ==
  /\ ~syncing /\ appStatus \in {"ready", "error"}
  /\ \E c \in ChildIds : children[c].mode = "sync" /\ children[c].st = "closed"
  /\ ~cleanBtn.disabled /\ cleanBtn.text \in {"cleaned", "error"}
  /\ \E c \in ChildIds : children[c].mode = "clean" /\ children[c].st = "closed"
  /\ toUI = << >>

(***************************************************************************)
(* Health-check settlement claims                                          *)
(***************************************************************************)
\* the close event of the probe's child, or its timer, has happened
Happened(p) ==
  probes[p].timer = "fired" \/ children[probes[p].c].st = "closed"

\* C39: a health-check is answered by the first of its child's close and
\* its timer and by nothing else: a close after the timer has fired and a
\* timer firing after the close send no answer and leave the result the
\* renderer shows, and once either has happened the call's one answer is in
\* flight or shown.
C39_SettlesOnce ==
  /\ [][\A p \in ProbeIds :
          ( \/ ProbeClose(p) /\ probes[p].timer = "fired"
            \/ HealthTimeout(p) /\ children[probes[p].c].st = "closed" ) =>
            /\ toUI' = toUI
            /\ UNCHANGED << healthResult, checking >>]_vars
  /\ [](\A p \in ProbeIds : Len(Answers(toUI, probes[p].c)) <= 1)
  /\ [](( /\ Len(probes) > 0
          /\ ProbeSent = Len(probes)
          /\ Happened(Len(probes)) ) =>
          LET n == Len(Answers(toUI, probes[Len(probes)].c)) IN
            \/ n = 1 /\ checking /\ healthResult = "none"
            \/ n = 0 /\ ~checking /\ healthResult # "none")

\* the renderer shows a failure, the timer has fired and the child has
\* closed: the later of the two changed nothing
C39_Witness ==
  /\ healthResult = "failed" /\ ~checking
  /\ toUI = << >>
  /\ \E p \in ProbeIds :
       /\ probes[p].timer = "fired"
       /\ children[probes[p].c].st = "closed"
       /\ probes[p].settled

====
